---- MODULE Spec2Model ----
(***************************************************************************)
(* The morphing particle tree: App (the morph-state toggle),               *)
(* InteractiveTree (particle generation, the damped blend and the          *)
(* per-frame instance writes) and FloatingOrnaments (the accent star).     *)
(*                                                                         *)
(* Numbers.  The program computes in IEEE doubles.  Here a number is an    *)
(* integer count of 2^-26 (binary fixed point, about 1.5e-8), products and *)
(* quotients rounded as below, or the value NaN.  All magnitudes stay      *)
(* below 16, so every intermediate fits TLC's 32-bit integers.             *)
(***************************************************************************)
EXTENDS Integers, Sequences, FiniteSets

\* ------------------------------------------------------------- numbers

FracBits == 13 + 13
One == 2^FracBits
HalfWord == 2^13

\* JavaScript's NaN: a value outside the range of every number of the model.
NaN == -((2^30) + (2^30 - 1))

IsNaN(a) == a = NaN

Magnitude(a) == IF a < 0 THEN -a ELSE a

SignOf(a, b) == IF (a < 0) = (b < 0) THEN 1 ELSE -1

\* |a| * |b| / One, rounded to nearest, from 13-bit halves so that no partial
\* product leaves 32 bits.
MulMag(a, b) ==
    LET a1 == a \div HalfWord
        a0 == a % HalfWord
        b1 == b \div HalfWord
        b0 == b % HalfWord
        low == a0 * b0 + (One \div 2)
    IN  a1 * b1 + ((a1 * b0 + a0 * b1 + (low \div HalfWord)) \div HalfWord)

\* Long division: the quotient q and remainder r of a / b so far, n more
\* binary digits to produce.
RECURSIVE DivBits(_, _, _, _)
DivBits(q, r, b, n) ==
    IF n = 0 THEN q
    ELSE IF 2 * r >= b THEN DivBits(2 * q + 1, 2 * r - b, b, n - 1)
         ELSE DivBits(2 * q, 2 * r, b, n - 1)

\* |a| * One / |b|, rounded down.
DivMag(a, b) == DivBits(a \div b, a % b, b, FracBits)

\* JavaScript's arithmetic on numbers: NaN is contagious, and every comparison
\* with NaN is false.
Add(a, b) == IF IsNaN(a) \/ IsNaN(b) THEN NaN ELSE a + b

Sub(a, b) == IF IsNaN(a) \/ IsNaN(b) THEN NaN ELSE a - b

Mul(a, b) ==
    IF IsNaN(a) \/ IsNaN(b) THEN NaN
    ELSE SignOf(a, b) * MulMag(Magnitude(a), Magnitude(b))

\* 0/0 is NaN.  x/0 for x # 0 is an infinity in JavaScript; no division of the
\* program reaches it for the frame times of this model.
Div(a, b) ==
    IF IsNaN(a) \/ IsNaN(b) \/ b = 0 THEN NaN
    ELSE SignOf(a, b) * DivMag(Magnitude(a), Magnitude(b))

Gt(a, b) == ~IsNaN(a) /\ ~IsNaN(b) /\ a > b

LtEq(a, b) == ~IsNaN(a) /\ ~IsNaN(b) /\ a <= b

MathAbs(a) == IF IsNaN(a) THEN NaN ELSE Magnitude(a)

MathMax(a, b) == IF IsNaN(a) \/ IsNaN(b) THEN NaN ELSE IF a > b THEN a ELSE b

\* The decimal literal num/den.
Lit(num, den) == Div(num, den)

\* ------------------------------------------------------- maath easing.damp

\* easing.damp's default eps, "end of animation precision": 0.001.
DampEps == Lit(1, 1000)

\* maath's easing.exp, the default easing of damp:
\*   t => 1 / (1 + t + 0.48 * t * t + 0.235 * t * t * t)
ExpQuadratic == Lit(48, 100)
ExpCubic == Lit(235, 1000)

EasingExp(x) ==
    LET x2 == Mul(x, x)
        x3 == Mul(x2, x)
    IN  Div(One, Add(Add(Add(One, x), Mul(ExpQuadratic, x2)), Mul(ExpCubic, x3)))

\* smoothTime = Math.max(0.0001, smoothTime)
MinSmoothTime == Lit(1, 10000)

\* damp without its easing factor: the step is never scaled down by t.
DampUneased(ref, target, smoothTime, delta) ==
    IF LtEq(MathAbs(Sub(ref.current, target)), DampEps)
    THEN [ref EXCEPT !.current = target]
    ELSE LET omega == Div(2 * One, MathMax(MinSmoothTime, smoothTime))
             change == Sub(ref.current, target)
             temp == Mul(Add(ref.velocity, Mul(omega, change)), delta)
             velocity == Sub(ref.velocity, Mul(omega, temp))
             output == Add(target, Add(change, temp))
         IN  IF Gt(Sub(target, ref.current), 0) = Gt(output, target)
             THEN [current |-> target, velocity |-> Div(Sub(target, target), delta)]
             ELSE [current |-> output, velocity |-> velocity]

\* damp without the eps test: the value is never set onto a near target.
DampNoSnap(ref, target, smoothTime, delta) ==
    LET omega == Div(2 * One, MathMax(MinSmoothTime, smoothTime))
        t == EasingExp(Mul(omega, delta))
        change == Sub(ref.current, target)
        temp == Mul(Add(ref.velocity, Mul(omega, change)), delta)
        velocity == Mul(Sub(ref.velocity, Mul(omega, temp)), t)
        output == Add(target, Mul(Add(change, temp), t))
    IN  IF Gt(Sub(target, ref.current), 0) = Gt(output, target)
        THEN [current |-> target, velocity |-> Div(Sub(target, target), delta)]
        ELSE [current |-> output, velocity |-> velocity]

\* damp with omega = 1 / smoothTime instead of 2 / smoothTime.
DampHalfOmega(ref, target, smoothTime, delta) ==
    IF LtEq(MathAbs(Sub(ref.current, target)), DampEps)
    THEN [ref EXCEPT !.current = target]
    ELSE LET omega == Div(One, MathMax(MinSmoothTime, smoothTime))
             t == EasingExp(Mul(omega, delta))
             change == Sub(ref.current, target)
             temp == Mul(Add(ref.velocity, Mul(omega, change)), delta)
             velocity == Mul(Sub(ref.velocity, Mul(omega, temp)), t)
             output == Add(target, Mul(Add(change, temp), t))
         IN  IF Gt(Sub(target, ref.current), 0) = Gt(output, target)
             THEN [current |-> target, velocity |-> Div(Sub(target, target), delta)]
             ELSE [current |-> output, velocity |-> velocity]

\* easing.damp(ref, 'current', target, smoothTime, delta) with its defaults
\* maxSpeed = Infinity (the clamp of `change` is then the identity), easing =
\* exp, eps = 0.001.  ref is [current, velocity]: the damped property and the
\* velocity damp keeps beside it in ref.__damp.velocity_current.
\*   if (Math.abs(current - target) <= eps) { current = target; return }
\*   omega = 2 / Math.max(0.0001, smoothTime);  t = easing(omega * delta)
\*   change = current - target
\*   temp = (velocity + omega * change) * delta
\*   velocity = (velocity - omega * temp) * t
\*   output = target + (change + temp) * t
\*   if ((target - current > 0) === (output > target))      // no overshoot
\*     { output = target; velocity = (output - target) / delta }
\*   current = output
Damp(ref, target, smoothTime, delta) ==
    IF LtEq(MathAbs(Sub(ref.current, target)), DampEps)
    THEN [ref EXCEPT !.current = target]
    ELSE LET omega == Div(2 * One, MathMax(MinSmoothTime, smoothTime))
             t == EasingExp(Mul(omega, delta))
             change == Sub(ref.current, target)
             temp == Mul(Add(ref.velocity, Mul(omega, change)), delta)
             velocity == Mul(Sub(ref.velocity, Mul(omega, temp)), t)
             output == Add(target, Mul(Add(change, temp), t))
         IN  IF Gt(Sub(target, ref.current), 0) = Gt(output, target)
             THEN [current |-> target, velocity |-> Div(Sub(target, target), delta)]
             ELSE [current |-> output, velocity |-> velocity]

\* ------------------------------------------------------------------ state

\* types.ts TreeMorphState, as App.tsx and both components use it.
SCATTERED == "SCATTERED"
TREE_SHAPE == "TREE_SHAPE"

\* The three instanced meshes of InteractiveTree, in the order useFrame
\* animates them.
Groups == <<"sphere", "cube", "gem">>
GroupSet == {"sphere", "cube", "gem"}

VARIABLES
    treeState,      \* App: useState<TreeMorphState>
    blendRef,       \* InteractiveTree: blendRef, with damp's velocity
    starBlendRef,   \* FloatingOrnaments: blendRef, with damp's velocity
    meshRef,        \* InteractiveTree: sphereRef/cubeRef/gemRef.current # null
    starRef,        \* FloatingOrnaments: starRef.current # null
    particles,      \* InteractiveTree: spheres, cubes, gems (useMemo)
    rotationY,      \* mesh.rotation.y of each instanced mesh
    instanceMatrix, \* mesh.instanceMatrix of each mesh: entries and version
    instanceColor,  \* mesh.instanceColor of each mesh: null, or entries and version
    star,           \* the accent group: rotation.y and scale
    frame,          \* frames rendered so far
    toggles,        \* toggles so far
    lastFrame,      \* the last frame tick: its delta, what it started from, what it did
    gen             \* a call of generateParticles: its arguments and its result

vars == <<treeState, blendRef, starBlendRef, meshRef, starRef, particles, rotationY,
          instanceMatrix, instanceColor, star, frame, toggles, lastFrame, gen>>

\* ------------------------------------------------------------------ bounds

\* COUNTS is { SPHERES: 600, CUBES: 600, GEMS: 300 }: two, two and one times
\* CountUnit here.
CountUnit == 1

\* The most frame ticks and toggles of a run.
MaxFrames == 9
MaxToggles == 2

\* The most frame ticks of a run that starts before the refs are attached,
\* and of a run that takes frame times no render loop should deliver.
MaxMountFrames == 3
MaxBadFrames == 3

\* The frame ticks of the 12-step scenario.
ScenarioFrames == 12

\* The largest count generateParticles is called with.
MaxCount == 2

COUNTS == [sphere |-> 2 * CountUnit, cube |-> 2 * CountUnit, gem |-> CountUnit]

\* ------------------------------------------------------- generateParticles

\* PALETTE: the colours by name.
PaletteNames == {"GOLD_BRIGHT", "GOLD_CHAMPAGNE", "GOLD_DEEP", "WHITE", "MORANDI",
                 "AMBER", "PINK", "BROWN"}

\* The decimal literals 0.00 .. 0.99 and 1.00.
Hundredth == [k \in 0..100 |-> Lit(k, 100)]

\* The chain with the first sphere bound inclusive (rand <= 0.30).
PickColorInclusive(type, rand) ==
    IF type = "sphere" THEN
        IF rand <= Hundredth[30] THEN "MORANDI"
        ELSE IF rand < Hundredth[55] THEN "WHITE"
        ELSE IF rand < Hundredth[70] THEN "GOLD_CHAMPAGNE"
        ELSE IF rand < Hundredth[85] THEN "PINK"
        ELSE IF rand < Hundredth[95] THEN "BROWN"
        ELSE "GOLD_BRIGHT"
    ELSE IF type = "cube" THEN
        IF rand < Hundredth[25] THEN "GOLD_BRIGHT"
        ELSE IF rand < Hundredth[45] THEN "GOLD_DEEP"
        ELSE IF rand < Hundredth[60] THEN "WHITE"
        ELSE IF rand < Hundredth[75] THEN "MORANDI"
        ELSE IF rand < Hundredth[85] THEN "BROWN"
        ELSE "GOLD_CHAMPAGNE"
    ELSE
        IF rand < Hundredth[40] THEN "AMBER"
        ELSE IF rand < Hundredth[70] THEN "WHITE"
        ELSE IF rand < Hundredth[85] THEN "GOLD_BRIGHT"
        ELSE "PINK"

\* The colour-mixing chain of generateParticles for one draw rand.
PickColor(type, rand) ==
    IF type = "sphere" THEN
        IF rand < Hundredth[30] THEN "MORANDI"
        ELSE IF rand < Hundredth[55] THEN "WHITE"
        ELSE IF rand < Hundredth[70] THEN "GOLD_CHAMPAGNE"
        ELSE IF rand < Hundredth[85] THEN "PINK"
        ELSE IF rand < Hundredth[95] THEN "BROWN"
        ELSE "GOLD_BRIGHT"
    ELSE IF type = "cube" THEN
        IF rand < Hundredth[25] THEN "GOLD_BRIGHT"
        ELSE IF rand < Hundredth[45] THEN "GOLD_DEEP"
        ELSE IF rand < Hundredth[60] THEN "WHITE"
        ELSE IF rand < Hundredth[75] THEN "MORANDI"
        ELSE IF rand < Hundredth[85] THEN "BROWN"
        ELSE "GOLD_CHAMPAGNE"
    ELSE
        IF rand < Hundredth[40] THEN "AMBER"
        ELSE IF rand < Hundredth[70] THEN "WHITE"
        ELSE IF rand < Hundredth[85] THEN "GOLD_BRIGHT"
        ELSE "PINK"

\* generateParticles(count, type).  rng[i] is the Math.random() draw that
\* decides particle i's colour (`rand`); the particle's other draws place and
\* orient it and set its scale and speed, which no operation here reads.  The
\* loop `for (i = 0; i < count; i++)` runs no iteration for count <= 0.
GenerateParticles(count, type, rng) ==
    [i \in 1..count |-> [color |-> PickColor(type, rng[i])]]

\* The draws of a call, Math.random() in [0, 1): every multiple of 0.05 (each
\* bound of the chains is one) and the hundredth below it.
Draws == {Hundredth[k] : k \in {j \in 0..99 : (j + 1) % 5 <= 1}}

\* One outcome of the draws of the useMemo call that builds the three groups.
MountRng == [i \in 1..(2 * (CountUnit + 1)) |-> Hundredth[(37 * i) % 100]]

\* ----------------------------------------------------------------- frames

\* targetBlend = state === TreeMorphState.TREE_SHAPE ? 1 : 0
TargetBlend(state) == IF state = TREE_SHAPE THEN One ELSE 0

\* THREE.MathUtils.lerp(x, y, t) = (1 - t) * x + t * y
Lerp(x, y, t) == Add(Mul(Sub(One, t), x), Mul(t, y))

\* The smooth times the two components pass to easing.damp, and their spins.
TreeSmoothTime == Lit(12, 10)
StarSmoothTime == Lit(10, 10)
MeshSpin == Lit(5, 100)
StarSpin == Lit(8, 10)
StarScale == Lit(12, 10)

\* The blend advanced only when all three meshes exist (an early return ahead
\* of damp, as FloatingOrnaments has).
TreeBlendAfterGuarded(delta) ==
    IF \A g \in GroupSet : meshRef[g]
    THEN Damp(blendRef, TargetBlend(treeState), TreeSmoothTime, delta)
    ELSE blendRef

\* InteractiveTree.useFrame: easing.damp(blendRef, 'current', targetBlend, 1.2, delta)
TreeBlendAfter(delta) == Damp(blendRef, TargetBlend(treeState), TreeSmoothTime, delta)

\* animateMesh with needsUpdate set inside the particle loop.
MeshOpsDirtyEachParticle(g) ==
    <<<<"rotation.y", g, 0>>>>
    \o [k \in 1..(3 * Len(particles[g])) |->
            IF k % 3 = 1 THEN <<"setMatrixAt", g, (k + 2) \div 3>>
            ELSE IF k % 3 = 2 THEN <<"setColorAt", g, (k + 1) \div 3>>
            ELSE <<"instanceMatrix.needsUpdate", g, 0>>]
    \o <<<<"instanceColor.needsUpdate", g, 0>>>>

\* The statements animateMesh(mesh, data) executes on mesh g, in program
\* order: rotation.y += delta * 0.05; for each particle setMatrixAt then
\* setColorAt; instanceMatrix.needsUpdate = true; and the guarded
\* `if (mesh.instanceColor) mesh.instanceColor.needsUpdate = true`.
MeshOps(g) ==
    <<<<"rotation.y", g, 0>>>>
    \o [k \in 1..(2 * Len(particles[g])) |->
            IF k % 2 = 1 THEN <<"setMatrixAt", g, (k + 1) \div 2>>
            ELSE <<"setColorAt", g, k \div 2>>]
    \o <<<<"instanceMatrix.needsUpdate", g, 0>>, <<"instanceColor.needsUpdate", g, 0>>>>

\* animateMesh returns at once when its mesh ref is null.
AnimateMesh(g) == IF meshRef[g] THEN MeshOps(g) ELSE <<>>

\* animateMesh(sphereRef.current, spheres); animateMesh(cubeRef.current, cubes);
\* animateMesh(gemRef.current, gems)
RECURSIVE FrameOps(_)
FrameOps(k) ==
    IF k > Len(Groups) THEN <<>> ELSE AnimateMesh(Groups[k]) \o FrameOps(k + 1)

\* THREE.InstancedMesh.setColorAt allocates instanceColor on its first call.
ColorBuffer(c, g) ==
    IF c.present THEN c
    ELSE [present |-> TRUE, entries |-> [i \in 1..COUNTS[g] |-> "none"], version |-> 0]

\* One statement op on the meshes m = [rotationY, instanceMatrix, instanceColor],
\* with blend t and frame time delta in frame number n.  The matrix
\* setMatrixAt writes is a function of the particle, t and the clock: it is
\* recorded as [group, particle, t, frame].
ApplyOp(m, op, t, delta, n) ==
    LET g == op[2]
        i == op[3]
    IN  IF op[1] = "rotation.y"
        THEN [m EXCEPT !.rotationY[g] = Add(@, Mul(delta, MeshSpin))]
        ELSE IF op[1] = "setMatrixAt"
        THEN [m EXCEPT !.instanceMatrix[g].entries[i] =
                            [group |-> g, particle |-> i, t |-> t, frame |-> n]]
        ELSE IF op[1] = "setColorAt"
        THEN [m EXCEPT !.instanceColor[g] =
                            [ColorBuffer(@, g) EXCEPT !.entries[i] = particles[g][i].color]]
        ELSE IF op[1] = "instanceMatrix.needsUpdate"
        THEN [m EXCEPT !.instanceMatrix[g].version = @ + 1]
        ELSE IF m.instanceColor[g].present
        THEN [m EXCEPT !.instanceColor[g].version = @ + 1]
        ELSE m

RECURSIVE ApplyOps(_, _, _, _, _, _)
ApplyOps(m, ops, k, t, delta, n) ==
    IF k > Len(ops) THEN m
    ELSE ApplyOps(ApplyOp(m, ops[k], t, delta, n), ops, k + 1, t, delta, n)

\* FloatingOrnaments.useFrame returns before anything else when starRef is null.
StarBlendAfter(delta) ==
    IF starRef THEN Damp(starBlendRef, TargetBlend(treeState), StarSmoothTime, delta)
    ELSE starBlendRef

\* scale = lerp(0, 1.2, t); rotation.y += delta * 0.8
StarAfter(t, delta) ==
    IF starRef
    THEN [scale |-> Lerp(0, StarScale, t),
          rotationY |-> Add(star.rotationY, Mul(delta, StarSpin))]
    ELSE star

\* One tick of the render loop: both useFrame callbacks run with the same
\* delta.  lastFrame keeps what the tick started from and what it executed.
Frame(delta) ==
    /\ blendRef' = TreeBlendAfter(delta)
    /\ LET m == ApplyOps([rotationY |-> rotationY, instanceMatrix |-> instanceMatrix,
                          instanceColor |-> instanceColor],
                         FrameOps(1), 1, blendRef'.current, delta, frame + 1)
       IN  /\ rotationY' = m.rotationY
           /\ instanceMatrix' = m.instanceMatrix
           /\ instanceColor' = m.instanceColor
    /\ starBlendRef' = StarBlendAfter(delta)
    /\ star' = StarAfter(starBlendRef'.current, delta)
    /\ frame' = frame + 1
    /\ lastFrame' = [delta |-> delta,
                     target |-> TargetBlend(treeState),
                     reversed |-> TargetBlend(treeState) # lastFrame.target,
                     streak |-> IF TargetBlend(treeState) # lastFrame.target THEN 1
                                ELSE lastFrame.streak + 1,
                     blend |-> blendRef, starBlend |-> starBlendRef,
                     meshRef |-> meshRef, starRef |-> starRef,
                     rotationY |-> rotationY, star |-> star,
                     ops |-> FrameOps(1)]
    /\ UNCHANGED <<treeState, meshRef, starRef, particles, toggles, gen>>

\* A toggle that also restarts the particle blend from rest.
ToggleRestarts ==
    /\ toggles < MaxToggles
    /\ treeState' = IF treeState = SCATTERED THEN TREE_SHAPE ELSE SCATTERED
    /\ toggles' = toggles + 1
    /\ blendRef' = [blendRef EXCEPT !.velocity = 0]
    /\ UNCHANGED <<starBlendRef, meshRef, starRef, particles, rotationY,
                   instanceMatrix, instanceColor, star, frame, lastFrame, gen>>

\* App.handleToggle: setTreeState(prev => the other state).
Toggle ==
    /\ toggles < MaxToggles
    /\ treeState' = IF treeState = SCATTERED THEN TREE_SHAPE ELSE SCATTERED
    /\ toggles' = toggles + 1
    /\ UNCHANGED <<blendRef, starBlendRef, meshRef, starRef, particles, rotationY,
                   instanceMatrix, instanceColor, star, frame, lastFrame, gen>>

\* React attaches a ref when it commits the element.
AttachMesh(g) ==
    /\ ~meshRef[g]
    /\ meshRef' = [meshRef EXCEPT ![g] = TRUE]
    /\ UNCHANGED <<treeState, blendRef, starBlendRef, starRef, particles, rotationY,
                   instanceMatrix, instanceColor, star, frame, toggles, lastFrame, gen>>

AttachStar ==
    /\ ~starRef
    /\ starRef' = TRUE
    /\ UNCHANGED <<treeState, blendRef, starBlendRef, meshRef, particles, rotationY,
                   instanceMatrix, instanceColor, star, frame, toggles, lastFrame, gen>>

\* A call generateParticles(gen.count, gen.type) returns.
Generate ==
    /\ gen.status = "called"
    /\ gen' = [gen EXCEPT !.status = "returned",
                          !.data = GenerateParticles(gen.count, gen.type, gen.rng)]
    /\ UNCHANGED <<treeState, blendRef, starBlendRef, meshRef, starRef, particles,
                   rotationY, instanceMatrix, instanceColor, star, frame, toggles,
                   lastFrame>>

\* ---------------------------------------------------------- specifications

NoGen == [status |-> "none", type |-> "sphere", count |-> 0, rng |-> <<>>, data |-> <<>>]

\* The components as constructed: useState(SCATTERED), useRef(0), useRef(null),
\* the three groups generated by useMemo, the buffers of each instanced mesh
\* as THREE.InstancedMesh allocates them (no colour buffer yet).
Constructed(attached) ==
    /\ treeState = SCATTERED
    /\ blendRef = [current |-> 0, velocity |-> 0]
    /\ starBlendRef = [current |-> 0, velocity |-> 0]
    /\ meshRef = [g \in GroupSet |-> attached]
    /\ starRef = attached
    /\ particles = [g \in GroupSet |-> GenerateParticles(COUNTS[g], g, MountRng)]
    /\ rotationY = [g \in GroupSet |-> 0]
    /\ instanceMatrix = [g \in GroupSet |->
            [entries |-> [i \in 1..COUNTS[g] |->
                            [group |-> "none", particle |-> 0, t |-> 0, frame |-> 0]],
             version |-> 0]]
    /\ instanceColor = [g \in GroupSet |-> [present |-> FALSE, entries |-> <<>>, version |-> 0]]
    /\ star = [scale |-> One, rotationY |-> 0]
    /\ frame = 0
    /\ toggles = 0
    /\ lastFrame = [delta |-> 0, target |-> 0, reversed |-> FALSE, streak |-> 0,
                    blend |-> [current |-> 0, velocity |-> 0],
                    starBlend |-> [current |-> 0, velocity |-> 0],
                    meshRef |-> [g \in GroupSet |-> attached], starRef |-> attached,
                    rotationY |-> [g \in GroupSet |-> 0],
                    star |-> [scale |-> One, rotationY |-> 0],
                    ops |-> <<>>]

\* Before React has committed: every ref is still null.
Init == Constructed(FALSE) /\ gen = NoGen

\* After the commit: every ref is attached.
InitMounted == Constructed(TRUE) /\ gen = NoGen

\* Frame times of a healthy render loop: a 100 ms frame and a one-second spike.
DeltaTimes == {Lit(1, 10), One}

\* The extremes: a 0.3 ms frame and a one-second spike.
SpikeDeltaTimes == {Lit(3, 10000), One}

\* A stalled clock, and frame times no render loop should deliver: negative, NaN.
BadDeltaTimes == {0, -Lit(1, 10), NaN}

Next ==
    \/ Toggle
    \/ \E g \in GroupSet : AttachMesh(g)
    \/ AttachStar
    \/ \E delta \in DeltaTimes : frame < MaxMountFrames /\ Frame(delta)

Spec == Init /\ [][Next]_vars

NextBlend ==
    \/ Toggle
    \/ \E delta \in DeltaTimes : frame < MaxFrames /\ Frame(delta)

SpecBlend == InitMounted /\ [][NextBlend]_vars

NextSpike ==
    \/ Toggle
    \/ \E delta \in SpikeDeltaTimes : frame < MaxFrames /\ Frame(delta)

SpecSpike == InitMounted /\ [][NextSpike]_vars

NextBadDelta ==
    \/ Toggle
    \/ \E delta \in DeltaTimes \cup BadDeltaTimes : frame < MaxBadFrames /\ Frame(delta)

SpecBadDelta == InitMounted /\ [][NextBadDelta]_vars

NextScenario ==
    \/ Toggle
    \/ \E delta \in {Lit(1, 10)} : frame < ScenarioFrames /\ Frame(delta)

SpecScenario == InitMounted /\ [][NextScenario]_vars

\* A call generateParticles(count, type) about to run, with the draws it will make.
InitGenerate ==
    /\ Constructed(FALSE)
    /\ \E type \in GroupSet, count \in (-2)..MaxCount :
        \E rng \in [1..count -> Draws] :
            gen = [status |-> "called", type |-> type, count |-> count, rng |-> rng,
                   data |-> <<>>]

SpecGenerate == InitGenerate /\ [][Generate]_vars

\* ------------------------------------------------------------------ claims

\* The two blend controllers as the last frame tick found them and left them:
\* <<before, after, smoothTime>>.
Controllers ==
    {<<lastFrame.blend, blendRef, TreeSmoothTime>>,
     <<lastFrame.starBlend, starBlendRef, StarSmoothTime>>}

Distance(x, target) == Magnitude(x - target)

\* The velocity damp kept does not carry the value away from the target.
NotMovingAway(ref, target) ==
    \/ ref.velocity = 0
    \/ (ref.velocity > 0) = (target > ref.current)

Between(x, a, b) == (a <= x /\ x <= b) \/ (b <= x /\ x <= a)

\* C1: after any toggles and frame ticks with dt >= 0, the blend value of each
\* controller is within [0, 1].
C1_BlendWithinUnitInterval ==
    /\ 0 <= blendRef.current /\ blendRef.current <= One
    /\ 0 <= starBlendRef.current /\ starBlendRef.current <= One

C4_Step ==
    /\ treeState' # treeState =>
        blendRef' = blendRef /\ starBlendRef' = starBlendRef
    /\ frame' = frame + 1 /\ TargetBlend(treeState) # lastFrame.target =>
        /\ Magnitude(blendRef'.current - blendRef.current)
            <= MathMax(Distance(blendRef.current, TargetBlend(treeState)),
                       Mul(Magnitude(blendRef.velocity), lastFrame'.delta))
        /\ Magnitude(starBlendRef'.current - starBlendRef.current)
            <= MathMax(Distance(starBlendRef.current, TargetBlend(treeState)),
                       Mul(Magnitude(starBlendRef.velocity), lastFrame'.delta))

ScenarioRun ==
    /\ frame > 0 /\ lastFrame.streak = frame
    /\ lastFrame.target = One /\ lastFrame.delta = Hundredth[10]

\* C10: from 0 toward 1 with dt = 0.1 and smooth time 1.2, each of 12 ticks
\* leaves the value strictly greater, and the 12th leaves it in [0.55, 0.70].
C10_TwelveSteps ==
    ScenarioRun /\ frame <= 12 =>
        /\ blendRef.current > lastFrame.blend.current
        /\ frame = 12 =>
            /\ Hundredth[55] <= blendRef.current
            /\ blendRef.current <= Hundredth[70]
            /\ blendRef.current # One

C10_Witness == ScenarioRun /\ frame = 12

\* C5: a frame tick with a negative or NaN delta is treated as dt = 0: it
\* leaves each blend value, each mesh's rotation.y and the star's rotation.y
\* as they were, and no NaN enters the blend state.
C5_BadDeltaIsZeroDelta ==
    /\ ~IsNaN(blendRef.current) /\ ~IsNaN(blendRef.velocity)
    /\ ~IsNaN(starBlendRef.current) /\ ~IsNaN(starBlendRef.velocity)
    /\ frame > 0 /\ (IsNaN(lastFrame.delta) \/ lastFrame.delta < 0) =>
        /\ \A c \in Controllers :
            \/ c[2].current = c[1].current
            \/ c[2].current = Damp(c[1], lastFrame.target, c[3], 0).current
        /\ rotationY = lastFrame.rotationY
        /\ star.rotationY = lastFrame.star.rotationY

\* C6, one step: a frame tick advances the blend whatever meshes exist;
\* a mesh that does not exist is left untouched; every mesh that exists gets
\* its spin, every particle's matrix and colour written with the new blend,
\* and its matrix buffer marked once.
C6_Step ==
    frame' = frame + 1 =>
        /\ blendRef' = Damp(blendRef, TargetBlend(treeState), TreeSmoothTime,
                            lastFrame'.delta)
        /\ \A g \in GroupSet :
            IF meshRef[g]
            THEN /\ instanceMatrix'[g].version = instanceMatrix[g].version + 1
                 /\ rotationY'[g] = Add(rotationY[g], Mul(lastFrame'.delta, MeshSpin))
                 /\ \A i \in 1..Len(particles[g]) :
                      /\ instanceMatrix'[g].entries[i] =
                            [group |-> g, particle |-> i, t |-> blendRef'.current,
                             frame |-> frame']
                      /\ instanceColor'[g].entries[i] = particles[g][i].color
            ELSE /\ instanceMatrix'[g] = instanceMatrix[g]
                 /\ instanceColor'[g] = instanceColor[g]
                 /\ rotationY'[g] = rotationY[g]
                 /\ \A k \in DOMAIN lastFrame'.ops : lastFrame'.ops[k][2] # g

C6_MissingMeshIsSkipped == [][C6_Step]_vars

\* C6's case: mesh g missed the first tick or ticks, mesh h did not, the blend
\* moved meanwhile, and the last tick wrote g.
C6_Witness ==
    /\ frame >= 2 /\ blendRef.current > 0
    /\ \E g, h \in GroupSet :
        /\ instanceMatrix[g].version = 1 /\ lastFrame.meshRef[g]
        /\ instanceMatrix[g].entries[1].frame = frame
        /\ instanceMatrix[h].version = frame

\* C7: generateParticles(count, type) returns exactly count records for
\* count >= 0 and never returns a group for a negative count.
C7_GenerateHonoursCount ==
    gen.status = "returned" => gen.count >= 0 /\ Len(gen.data) = gen.count

\* The tables of the colour pick: <<colour, cumulative bound in hundredths>>.
ColorTable ==
    [sphere |-> <<<<"MORANDI", 30>>, <<"WHITE", 55>>, <<"GOLD_CHAMPAGNE", 70>>,
                  <<"PINK", 85>>, <<"BROWN", 95>>, <<"GOLD_BRIGHT", 100>>>>,
     cube |-> <<<<"GOLD_BRIGHT", 25>>, <<"GOLD_DEEP", 45>>, <<"WHITE", 60>>,
                <<"MORANDI", 75>>, <<"BROWN", 85>>, <<"GOLD_CHAMPAGNE", 100>>>>,
     gem |-> <<<<"AMBER", 40>>, <<"WHITE", 70>>, <<"GOLD_BRIGHT", 85>>, <<"PINK", 100>>>>]

\* The entries of a table whose bound exceeds u.
Exceeding(table, u) == {k \in DOMAIN table : Hundredth[table[k][2]] > u}

\* C8: for each class and each draw u in [0, 1) the colour picked is that of
\* the first table entry whose bound exceeds u, and there is such an entry.
C8_PickIsFirstExceeding ==
    gen.status = "returned" =>
        \A i \in DOMAIN gen.data :
            LET table == ColorTable[gen.type]
                above == Exceeding(table, gen.rng[i])
            IN  /\ above # {}
                /\ \E k \in above :
                    /\ \A j \in above : k <= j
                    /\ gen.data[i].color = table[k][1]

\* C8's case: a sphere drawn at exactly the bound 0.30 got the next colour.
C8_Witness ==
    /\ gen.status = "returned" /\ gen.type = "sphere" /\ Len(gen.data) >= 1
    /\ gen.rng[1] = Hundredth[30] /\ gen.data[1].color = "WHITE"

\* C9, one step: in a frame tick each mesh that exists has its matrix buffer
\* marked exactly once, after the write of every one of its particles; its
\* buffer holds only its own particles; the particle records and the buffers
\* of a mesh that does not exist are left alone.
C9_Step ==
    frame' = frame + 1 =>
        LET ops == lastFrame'.ops
            marks(g) == {k \in DOMAIN ops : ops[k] = <<"instanceMatrix.needsUpdate", g, 0>>}
        IN  /\ particles' = particles
            /\ \A g \in GroupSet :
                IF meshRef[g]
                THEN /\ Cardinality(marks(g)) = 1
                     /\ instanceMatrix'[g].version = instanceMatrix[g].version + 1
                     /\ \A i \in 1..Len(particles[g]) :
                          \E k \in DOMAIN ops :
                              /\ ops[k] = <<"setMatrixAt", g, i>>
                              /\ \A d \in marks(g) : k < d
                     /\ \A k \in DOMAIN ops :
                          ops[k][2] = g /\ ops[k][1] \in {"setMatrixAt", "setColorAt"} =>
                              \A d \in marks(g) : k < d
                     /\ \A i \in DOMAIN instanceMatrix'[g].entries :
                          instanceMatrix'[g].entries[i].group \in {g, "none"}
                ELSE /\ marks(g) = {}
                     /\ instanceMatrix'[g] = instanceMatrix[g]
                     /\ instanceColor'[g] = instanceColor[g]

C9_MarkedOncePerFrame == [][C9_Step]_vars

\* C9's case: a tick in which all three meshes existed and were written.
C9_Witness ==
    /\ frame > 0
    /\ \A g \in GroupSet :
        /\ lastFrame.meshRef[g]
        /\ instanceMatrix[g].entries[COUNTS[g]].frame = frame

====
